---- MODULE Spec2Model ----
(***************************************************************************)
(* Authentication-gated routing of the Rail mobile client.                *)
(*                                                                         *)
(*  - utils/routeHelpers  : buildRouteConfig, determineRoute and the four  *)
(*                          branch handlers (pure functions)               *)
(*  - stores/authStore    : the persisted zustand session store            *)
(*  - hooks/useProtectedRoute : one-time initialisation and the latched    *)
(*                          routing effect                                 *)
(*  - app/index           : the welcome screen writing the welcome flag    *)
(*                                                                         *)
(* JavaScript null/undefined is the string Null; an absent user is the     *)
(* record NullUser.                                                        *)
(***************************************************************************)
EXTENDS Naturals, Sequences, FiniteSets

Null == "null"

\* A string is truthy when it is neither null/undefined nor empty.
Truthy(s) == s # Null /\ s # ""

\* User.hasPasscode / User.onboardingStatus are optional: "undef" when missing.
NullUser == [id |-> Null, hasPasscode |-> "undef", onboardingStatus |-> "undef"]

UserPresent(u) == u # NullUser

----------------------------------------------------------------------------
(* Route helpers (utils/routeHelpers)                                      *)

WelcomePath == "/"

LoginPasscodePath == "/(auth)/login-passcode"

VerifyEmailPath == "/(auth)/verify-email"

CreatePasscodePath == "/(auth)/create-passcode"

ConfirmPasscodePath == "/(auth)/confirm-passcode"

SigninPath == "/(auth)/signin"

TabsPath == "/(tabs)"

\* segments[0]: undefined for an empty segment list
FirstSegment(segs) == IF Len(segs) = 0 THEN Null ELSE segs[1]

\* (a configuration that tolerates a trailing slash on the verify-email path)
buildRouteConfigTrailingSlash(segs, path) ==
  [ inAuthGroup         |-> FirstSegment(segs) = "(auth)",
    inTabsGroup         |-> FirstSegment(segs) = "(tabs)",
    isOnWelcomeScreen   |-> path = WelcomePath,
    isOnLoginPasscode   |-> path = LoginPasscodePath,
    isOnVerifyEmail     |-> path \in {VerifyEmailPath, VerifyEmailPath \o "/"},
    isOnCreatePasscode  |-> path = CreatePasscodePath,
    isOnConfirmPasscode |-> path = ConfirmPasscodePath ]

buildRouteConfig(segs, path) ==
  [ inAuthGroup         |-> FirstSegment(segs) = "(auth)",
    inTabsGroup         |-> FirstSegment(segs) = "(tabs)",
    isOnWelcomeScreen   |-> path = WelcomePath,
    isOnLoginPasscode   |-> path = LoginPasscodePath,
    isOnVerifyEmail     |-> path = VerifyEmailPath,
    isOnCreatePasscode  |-> path = CreatePasscodePath,
    isOnConfirmPasscode |-> path = ConfirmPasscodePath ]

isInCriticalAuthFlow(config) ==
  \/ config.isOnLoginPasscode
  \/ config.isOnVerifyEmail
  \/ config.isOnCreatePasscode
  \/ config.isOnConfirmPasscode

\* user?.onboardingStatus || onboardingStatus
EffectiveOnboardingStatus(authState) ==
  IF UserPresent(authState.user) /\ authState.user.onboardingStatus # "undef"
  THEN authState.user.onboardingStatus
  ELSE authState.onboardingStatus

\* (the handler without the critical-flow test)
handleAuthenticatedUserNoCriticalTest(authState, config) ==
  IF EffectiveOnboardingStatus(authState) = "completed" /\ config.inTabsGroup
  THEN Null
  ELSE IF ~config.inTabsGroup THEN TabsPath
  ELSE Null

\* (the handler without the last tabs-group test)
handleAuthenticatedUserRedirectsUnfinished(authState, config) ==
  IF isInCriticalAuthFlow(config) THEN Null
  ELSE IF EffectiveOnboardingStatus(authState) = "completed" /\ config.inTabsGroup
       THEN Null
  ELSE TabsPath

handleAuthenticatedUser(authState, config) ==
  IF isInCriticalAuthFlow(config) THEN Null
  ELSE IF EffectiveOnboardingStatus(authState) = "completed" /\ config.inTabsGroup
       THEN Null
  ELSE IF ~config.inTabsGroup THEN TabsPath
  ELSE Null

\* user?.hasPasscode, used as a condition
UserHasPasscode(authState) ==
  UserPresent(authState.user) /\ authState.user.hasPasscode = "true"

\* (the handler with a mistyped sign-in path)
handleStoredCredentialsWrongPath(authState, config) ==
  IF config.inAuthGroup THEN Null
  ELSE IF UserHasPasscode(authState) /\ ~config.isOnLoginPasscode
       THEN LoginPasscodePath
  ELSE IF ~UserHasPasscode(authState) /\ ~config.isOnWelcomeScreen
       THEN "/(auth)/sign-in"
  ELSE Null

\* (the handler without the auth-group test)
handleStoredCredentialsNoAuthGroupTest(authState, config) ==
  IF UserHasPasscode(authState) /\ ~config.isOnLoginPasscode
  THEN LoginPasscodePath
  ELSE IF ~UserHasPasscode(authState) /\ ~config.isOnWelcomeScreen
       THEN SigninPath
  ELSE Null

handleStoredCredentials(authState, config) ==
  IF config.inAuthGroup THEN Null
  ELSE IF UserHasPasscode(authState) /\ ~config.isOnLoginPasscode
       THEN LoginPasscodePath
  ELSE IF ~UserHasPasscode(authState) /\ ~config.isOnWelcomeScreen
       THEN SigninPath
  ELSE Null

\* (the handler without the verify-email screen test)
handleEmailVerificationNoScreenTest(config) ==
  IF ~config.isOnWelcomeScreen THEN VerifyEmailPath ELSE Null

\* (the handler without the welcome-screen test)
handleEmailVerificationOffWelcome(config) ==
  IF config.isOnVerifyEmail THEN Null ELSE VerifyEmailPath

handleEmailVerification(config) ==
  IF config.isOnVerifyEmail THEN Null
  ELSE IF ~config.isOnVerifyEmail /\ ~config.isOnWelcomeScreen
       THEN VerifyEmailPath
  ELSE Null

\* (the handler without the tabs-group test)
handleGuestUserNoTabsTest(seenWelcome, config) ==
  IF seenWelcome /\ config.inAuthGroup THEN Null
  ELSE IF ~seenWelcome /\ ~config.isOnWelcomeScreen THEN WelcomePath
  ELSE IF ~config.inAuthGroup /\ ~config.isOnWelcomeScreen THEN WelcomePath
  ELSE Null

handleGuestUser(seenWelcome, config) ==
  IF seenWelcome /\ config.inAuthGroup THEN Null
  ELSE IF ~seenWelcome /\ ~config.isOnWelcomeScreen THEN WelcomePath
  ELSE IF config.inTabsGroup \/ (~config.inAuthGroup /\ ~config.isOnWelcomeScreen)
       THEN WelcomePath
  ELSE Null

\* (the entry branches with the pending email tested before the user)
determineRouteVerificationFirst(authState, config, seenWelcome) ==
  IF /\ authState.isAuthenticated
     /\ UserPresent(authState.user)
     /\ Truthy(authState.accessToken)
  THEN handleAuthenticatedUser(authState, config)
  ELSE IF ~authState.isAuthenticated /\ Truthy(authState.pendingVerificationEmail)
  THEN handleEmailVerification(config)
  ELSE IF ~authState.isAuthenticated /\ UserPresent(authState.user)
  THEN handleStoredCredentials(authState, config)
  ELSE IF ~authState.isAuthenticated /\ ~UserPresent(authState.user)
  THEN handleGuestUser(seenWelcome, config)
  ELSE Null

determineRoute(authState, config, seenWelcome) ==
  IF /\ authState.isAuthenticated
     /\ UserPresent(authState.user)
     /\ Truthy(authState.accessToken)
  THEN handleAuthenticatedUser(authState, config)
  ELSE IF ~authState.isAuthenticated /\ UserPresent(authState.user)
  THEN handleStoredCredentials(authState, config)
  ELSE IF /\ ~authState.isAuthenticated
          /\ ~UserPresent(authState.user)
          /\ Truthy(authState.pendingVerificationEmail)
  THEN handleEmailVerification(config)
  ELSE IF ~authState.isAuthenticated /\ ~UserPresent(authState.user)
  THEN handleGuestUser(seenWelcome, config)
  ELSE Null

----------------------------------------------------------------------------
(* Chain utilities (utils/chains)                                          *)

\* String.prototype.includes
Includes(s, t) ==
  \E i \in 1..(Len(s) + 1 - Len(t)) : SubSeq(s, i, i + Len(t) - 1) = t

NETWORK_TO_TESTNET_MAP ==
  [ solana  |-> "SOL-DEVNET",
    base    |-> "BASE-SEPOLIA",
    polygon |-> "MATIC-AMOY",
    bnb     |-> "ETH-SEPOLIA" ]

\* property names every object literal inherits from Object.prototype
ObjectPrototypeKeys ==
  {"constructor", "toString", "toLocaleString", "valueOf", "hasOwnProperty",
   "isPrototypeOf", "propertyIsEnumerable", "__proto__"}

\* the value (a function, or the prototype object) found under an inherited
\* name; it is not a string
InheritedMember(key) == "Object.prototype." \o key

\* obj[key]: an own property, else one found on the prototype chain, else
\* undefined
PropertyOf(obj, key) ==
  IF key \in DOMAIN obj THEN obj[key]
  ELSE IF key \in ObjectPrototypeKeys THEN InheritedMember(key)
  ELSE Null

getTestnetChain(id) ==
  IF ~Truthy(id) THEN Null ELSE PropertyOf(NETWORK_TO_TESTNET_MAP, id)

isTestnetChain(chain) ==
  \/ Includes(chain, "SEPOLIA")
  \/ Includes(chain, "DEVNET")
  \/ Includes(chain, "AMOY")
  \/ Includes(chain, "TESTNET")

TestnetChains ==
  {"ETH-SEPOLIA", "MATIC-AMOY", "SOL-DEVNET", "APTOS-TESTNET", "BASE-SEPOLIA"}

MainnetChains == {"ETH", "MATIC", "AVAX", "SOL", "APTOS", "BASE"}

----------------------------------------------------------------------------
(* State                                                                   *)

VARIABLES
  \* stores/authStore: the session fields
  user, isAuthenticated, accessToken, refreshToken, onboardingStatus,
  pendingVerificationEmail, hasPasscode, isLoading, error,
  \* asynchronous store operations awaiting their server call, per operation
  inFlight,
  \* the latest login succeeded while a logout was awaiting its server call,
  \* and no logout has started or completed since
  loginOvertookLogout,
  \* the error the most recent store operation raised to its caller, or Null
  thrown,
  \* AsyncStorage: the 'auth-storage' blob of the previous launch and
  \* whether the persist middleware has merged it into the store
  persisted, hydrated,
  \* AsyncStorage: the 'hasSeenWelcome' key, and the welcome screen's
  \* setItem still under way
  welcomeStored, welcomeWritePending,
  \* navigation host: useSegments() / usePathname()
  segments, pathname,
  \* useProtectedRoute: lifecycle, position of initializeApp, the authState
  \* closure of the mount render, hook state and the latch
  mounted, hookPc, mountAuthState, hasSeenWelcome, isReady, hasNavigatedRef,
  \* router.replace commands issued since mount, and whether the effect has
  \* computed a decision of "stay" since mount
  replaceLog, stayed,
  \* outcome of validateAccessToken in this mount: "none", "ok" or "failed"
  validation,
  \* outcome of the AsyncStorage read inside checkWelcomeStatus in this
  \* mount: "none", "ok" or "failed"
  welcomeRead,
  \* result of a direct evaluation of determineRoute ("unset" before it)
  routeResult,
  \* utils/chains evaluated directly: the arguments of getTestnetChain and
  \* isTestnetChain and their results ("unset" before the evaluation, the
  \* boolean of isTestnetChain as "true" / "false")
  networkId, chainArg, chainResult, testnetResult

storeVars == <<user, isAuthenticated, accessToken, refreshToken,
               onboardingStatus, pendingVerificationEmail, hasPasscode,
               isLoading, error>>

opVars == <<inFlight, thrown, loginOvertookLogout>>

persistVars == <<persisted, hydrated>>

welcomeVars == <<welcomeStored, welcomeWritePending>>

hostVars == <<segments, pathname>>

hookVars == <<mounted, hookPc, mountAuthState, hasSeenWelcome, isReady,
              validation, welcomeRead>>

navVars == <<hasNavigatedRef, replaceLog, stayed>>

chainVars == <<networkId, chainArg, chainResult, testnetResult>>

vars == <<storeVars, opVars, persistVars, welcomeVars, hostVars, hookVars,
          navVars, routeResult, chainVars>>

----------------------------------------------------------------------------
(* Bounds and input domains                                                *)

\* store operations that may await their server call at the same time:
\* when the store is run on its own, and when it runs under the mounted hook
MaxInFlight == 2

MaxInFlightHook == 1

U1 == [id |-> "u1", hasPasscode |-> "true", onboardingStatus |-> "completed"]

U2 == [id |-> "u2", hasPasscode |-> "undef", onboardingStatus |-> "undef"]

\* users the server returns
ServerUsers == {U1, U2}

\* every shape of the optional user fields, for direct evaluation
AllUsers ==
  {NullUser} \cup
  [id : {"u1"}, hasPasscode : {"true", "false", "undef"},
   onboardingStatus : {"undef", "started", "completed"}]

PersistedToken == "t0"

ServerToken == "t1"

PersistedRefresh == "r0"

ServerRefresh == "r1"

Email == "a@b.com"

\* segment lists and path strings the navigation host may report
SegmentLists == {<<>>, <<"(auth)", "screen">>, <<"(tabs)">>, <<"withdraw">>}

Paths == {WelcomePath, LoginPasscodePath, VerifyEmailPath, CreatePasscodePath,
          ConfirmPasscodePath, SigninPath, TabsPath, "/withdraw",
          "/(auth)/verify-email/"}

Loc(segs, path) == [segments |-> segs, pathname |-> path]

\* locations the hook is run on
HostLocations ==
  { Loc(<<>>, WelcomePath),
    Loc(<<"(tabs)">>, TabsPath),
    Loc(<<"(auth)", "screen">>, LoginPasscodePath),
    Loc(<<"(auth)", "screen">>, SigninPath),
    Loc(<<"withdraw">>, "/withdraw") }

Targets == {TabsPath, LoginPasscodePath, SigninPath, VerifyEmailPath, WelcomePath}

\* network ids the deposit screens may pass: absent, empty, mapped, unmapped,
\* a mapped id in another case, and names of inherited object properties
NetworkIds ==
  {Null, "", "solana", "base", "polygon", "bnb", "ethereum", "aptos",
   "Solana", "constructor", "toString"}

\* chain names isTestnetChain is evaluated on
ChainArgs == TestnetChains \cup MainnetChains

\* no chain utility is under evaluation
ChainIdle ==
  /\ networkId = Null
  /\ chainArg = "ETH"
  /\ chainResult = "unset"
  /\ testnetResult = "unset"

----------------------------------------------------------------------------
(* Routing effect of useProtectedRoute                                     *)

\* the authState the hook builds from the store on every render
AuthStateOf ==
  [ user                     |-> user,
    isAuthenticated          |-> isAuthenticated,
    accessToken              |-> accessToken,
    onboardingStatus         |-> onboardingStatus,
    pendingVerificationEmail |-> pendingVerificationEmail ]

\* (the dependency list with the location left out)
EffectDepsWithoutLocation ==
  <<user, isAuthenticated, accessToken, onboardingStatus,
    pendingVerificationEmail, hasSeenWelcome, isReady>>

\* dependency list of the routing effect
EffectDeps ==
  <<user, isAuthenticated, accessToken, onboardingStatus,
    pendingVerificationEmail, pathname, segments, hasSeenWelcome, isReady>>

\* (the guard with the latch left out)
EffectProceedsIgnoringLatch(ready, latch) == ready

\* (the guard with the readiness test left out)
EffectProceedsBeforeReady(ready, latch) == ~latch

\* if (!isReady || hasNavigatedRef.current) return;
EffectProceeds(ready, latch) == ready /\ ~latch

\* The effect as it runs after the render that follows a state change: it is
\* the last conjunct of every action, reads the values the action leaves
\* behind, and runs only while the hook is mounted and a dependency changed.
RoutingEffect ==
  IF /\ mounted' = "yes"
     /\ (EffectDeps' # EffectDeps \/ mounted # "yes")
     /\ EffectProceeds(isReady', hasNavigatedRef)
  THEN LET targetRoute ==
             determineRoute(AuthStateOf',
                            buildRouteConfig(segments', pathname'),
                            hasSeenWelcome')
       IN IF targetRoute # Null
          THEN /\ hasNavigatedRef' = TRUE
               /\ replaceLog' = Append(replaceLog, targetRoute)
               /\ UNCHANGED stayed
          ELSE /\ stayed' = TRUE
               /\ UNCHANGED <<hasNavigatedRef, replaceLog>>
  ELSE UNCHANGED navVars

----------------------------------------------------------------------------
(* Auth store (stores/authStore)                                           *)

initialState ==
  [ user                     |-> NullUser,
    isAuthenticated          |-> FALSE,
    accessToken              |-> Null,
    refreshToken             |-> Null,
    onboardingStatus         |-> Null,
    pendingVerificationEmail |-> Null,
    hasPasscode              |-> FALSE,
    isLoading                |-> FALSE,
    error                    |-> Null ]

StoreState ==
  [ user                     |-> user,
    isAuthenticated          |-> isAuthenticated,
    accessToken              |-> accessToken,
    refreshToken             |-> refreshToken,
    onboardingStatus         |-> onboardingStatus,
    pendingVerificationEmail |-> pendingVerificationEmail,
    hasPasscode              |-> hasPasscode,
    isLoading                |-> isLoading,
    error                    |-> error ]

\* set(...): the store after the call holds s
SetStore(s) ==
  /\ user' = s.user
  /\ isAuthenticated' = s.isAuthenticated
  /\ accessToken' = s.accessToken
  /\ refreshToken' = s.refreshToken
  /\ onboardingStatus' = s.onboardingStatus
  /\ pendingVerificationEmail' = s.pendingVerificationEmail
  /\ hasPasscode' = s.hasPasscode
  /\ isLoading' = s.isLoading
  /\ error' = s.error

ErrorMessage == "error"

Ops == {"login", "logout", "register", "refresh"}

InFlightTotal ==
  inFlight["login"] + inFlight["logout"] + inFlight["register"] + inFlight["refresh"]

\* an operation starts awaiting; a logout started now is later than every
\* login that has succeeded
Begin(op) ==
  /\ inFlight' = [inFlight EXCEPT ![op] = @ + 1]
  /\ loginOvertookLogout' = (loginOvertookLogout /\ op # "logout")

End(op) == inFlight' = [inFlight EXCEPT ![op] = @ - 1]

\* what a store operation leaves alone outside the store
StoreFrame == UNCHANGED <<persistVars, welcomeVars, hostVars, hookVars, routeResult, chainVars>>

\* login: set({isLoading: true, error: null}) and await authService.login
LoginStart(cap) ==
  /\ InFlightTotal < cap
  /\ SetStore([StoreState EXCEPT !.isLoading = TRUE, !.error = Null])
  /\ Begin("login")
  /\ UNCHANGED thrown
  /\ StoreFrame
  /\ RoutingEffect

\* response.user.onboardingStatus || null
OrNull(v) == IF v = "undef" THEN Null ELSE v

LoginSuccess(u) ==
  /\ inFlight["login"] > 0
  /\ SetStore([StoreState EXCEPT
                 !.user = u,
                 !.isAuthenticated = TRUE,
                 !.accessToken = ServerToken,
                 !.refreshToken = ServerRefresh,
                 !.onboardingStatus = OrNull(u.onboardingStatus),
                 !.hasPasscode = (u.hasPasscode = "true"),
                 !.isLoading = FALSE])
  /\ End("login")
  /\ loginOvertookLogout' = (inFlight["logout"] > 0)
  /\ thrown' = Null
  /\ StoreFrame
  /\ RoutingEffect

LoginFailure ==
  /\ inFlight["login"] > 0
  /\ SetStore([StoreState EXCEPT !.error = ErrorMessage, !.isLoading = FALSE])
  /\ End("login")
  /\ UNCHANGED loginOvertookLogout
  /\ thrown' = ErrorMessage
  /\ StoreFrame
  /\ RoutingEffect

\* logout: set({isLoading: true}) and await authService.logout().catch(...)
LogoutStart(cap) ==
  /\ InFlightTotal < cap
  /\ SetStore([StoreState EXCEPT !.isLoading = TRUE])
  /\ Begin("logout")
  /\ UNCHANGED thrown
  /\ StoreFrame
  /\ RoutingEffect

\* (a logout that clears only the user and the authenticated flag)
LogoutFinishUserOnly ==
  /\ inFlight["logout"] > 0
  /\ SetStore([StoreState EXCEPT
                 !.user = NullUser, !.isAuthenticated = FALSE,
                 !.isLoading = FALSE])
  /\ End("logout")
  /\ loginOvertookLogout' = FALSE
  /\ thrown' = Null
  /\ StoreFrame
  /\ RoutingEffect

\* the server call resolved or was rejected (the rejection is swallowed):
\* set({...initialState, hasPasscode: false, hasCompletedOnboarding: false})
LogoutFinish ==
  /\ inFlight["logout"] > 0
  /\ SetStore([initialState EXCEPT !.hasPasscode = FALSE])
  /\ End("logout")
  /\ loginOvertookLogout' = FALSE
  /\ thrown' = Null
  /\ StoreFrame
  /\ RoutingEffect

RegisterStart(cap) ==
  /\ InFlightTotal < cap
  /\ SetStore([StoreState EXCEPT !.isLoading = TRUE, !.error = Null])
  /\ Begin("register")
  /\ UNCHANGED thrown
  /\ StoreFrame
  /\ RoutingEffect

\* pendingVerificationEmail: email || response.identifier
RegisterSuccess(email, identifier) ==
  /\ inFlight["register"] > 0
  /\ SetStore([StoreState EXCEPT
                 !.pendingVerificationEmail =
                    IF Truthy(email) THEN email ELSE identifier,
                 !.isAuthenticated = FALSE,
                 !.user = NullUser,
                 !.isLoading = FALSE])
  /\ End("register")
  /\ UNCHANGED loginOvertookLogout
  /\ thrown' = Null
  /\ StoreFrame
  /\ RoutingEffect

RegisterFailure ==
  /\ inFlight["register"] > 0
  /\ SetStore([StoreState EXCEPT !.error = ErrorMessage, !.isLoading = FALSE])
  /\ End("register")
  /\ UNCHANGED loginOvertookLogout
  /\ thrown' = ErrorMessage
  /\ StoreFrame
  /\ RoutingEffect

\* refreshSession without a refresh token: throws before any set
RefreshNoToken ==
  /\ ~Truthy(refreshToken)
  /\ thrown' = ErrorMessage
  /\ UNCHANGED <<storeVars, inFlight, loginOvertookLogout>>
  /\ StoreFrame
  /\ RoutingEffect

RefreshStart(cap) ==
  /\ Truthy(refreshToken)
  /\ InFlightTotal < cap
  /\ SetStore([StoreState EXCEPT !.isLoading = TRUE])
  /\ Begin("refresh")
  /\ UNCHANGED thrown
  /\ StoreFrame
  /\ RoutingEffect

RefreshSuccess ==
  /\ inFlight["refresh"] > 0
  /\ SetStore([StoreState EXCEPT
                 !.accessToken = ServerToken,
                 !.refreshToken = ServerRefresh,
                 !.isLoading = FALSE])
  /\ End("refresh")
  /\ UNCHANGED loginOvertookLogout
  /\ thrown' = Null
  /\ StoreFrame
  /\ RoutingEffect

\* (a failed refresh that records the error and does not log out)
RefreshFailureNoLogout ==
  /\ inFlight["refresh"] > 0
  /\ SetStore([StoreState EXCEPT !.error = ErrorMessage, !.isLoading = FALSE])
  /\ End("refresh")
  /\ UNCHANGED loginOvertookLogout
  /\ thrown' = ErrorMessage
  /\ StoreFrame
  /\ RoutingEffect

\* catch: set({error, isLoading: false}); get().logout() runs up to its
\* await, i.e. set({isLoading: true}); then the error is rethrown
RefreshFailure ==
  /\ inFlight["refresh"] > 0
  /\ SetStore([StoreState EXCEPT !.error = ErrorMessage, !.isLoading = TRUE])
  /\ inFlight' = [inFlight EXCEPT !["refresh"] = @ - 1, !["logout"] = @ + 1]
  /\ loginOvertookLogout' = FALSE
  /\ thrown' = ErrorMessage
  /\ StoreFrame
  /\ RoutingEffect

\* a synchronous setter: set(...) and a normal return
SyncSet(s) ==
  /\ SetStore(s)
  /\ thrown' = Null
  /\ UNCHANGED <<inFlight, loginOvertookLogout>>
  /\ StoreFrame
  /\ RoutingEffect

\* { ...user, ...userData }
MergeUser(u, userData) ==
  [ id               |-> u.id,
    hasPasscode      |-> IF userData.hasPasscode # "undef"
                         THEN userData.hasPasscode ELSE u.hasPasscode,
    onboardingStatus |-> IF userData.onboardingStatus # "undef"
                         THEN userData.onboardingStatus ELSE u.onboardingStatus ]

updateUser(userData) ==
  IF UserPresent(user)
  THEN SyncSet([StoreState EXCEPT !.user = MergeUser(user, userData)])
  ELSE SyncSet(StoreState)

setUser(u) ==
  SyncSet([StoreState EXCEPT !.user = u, !.isAuthenticated = TRUE])

setTokens(at, rt) ==
  SyncSet([StoreState EXCEPT
             !.accessToken = at, !.refreshToken = rt, !.isAuthenticated = TRUE])

setPendingEmail(email) ==
  SyncSet([StoreState EXCEPT !.pendingVerificationEmail = email])

setOnboardingStatus(status) ==
  SyncSet([StoreState EXCEPT !.onboardingStatus = status])

setHasPasscode(b) ==
  SyncSet([StoreState EXCEPT !.hasPasscode = b])

reset ==
  SyncSet(initialState)

\* create(): the store starts from initialState
SetStoreInit ==
  /\ user = initialState.user
  /\ isAuthenticated = initialState.isAuthenticated
  /\ accessToken = initialState.accessToken
  /\ refreshToken = initialState.refreshToken
  /\ onboardingStatus = initialState.onboardingStatus
  /\ pendingVerificationEmail = initialState.pendingVerificationEmail
  /\ hasPasscode = initialState.hasPasscode
  /\ isLoading = initialState.isLoading
  /\ error = initialState.error

\* Partial<User> arguments of updateUser
UserUpdates ==
  { [hasPasscode |-> "true", onboardingStatus |-> "undef"],
    [hasPasscode |-> "undef", onboardingStatus |-> "completed"] }

----------------------------------------------------------------------------
(* Persistence of the store (persist middleware, 'auth-storage')           *)

NoBlob == [initialState EXCEPT !.error = "no-blob"]

\* what an authenticated previous launch left in storage
AuthenticatedBlob ==
  [initialState EXCEPT
     !.user = U1, !.isAuthenticated = TRUE, !.accessToken = PersistedToken,
     !.refreshToken = PersistedRefresh, !.onboardingStatus = "completed",
     !.hasPasscode = TRUE]

\* what a previous launch that stopped after register left in storage
PendingBlob == [initialState EXCEPT !.pendingVerificationEmail = Email]

PersistedBlobs == {NoBlob, AuthenticatedBlob, PendingBlob}

\* the launches the hook is run on
HookBlobs == {NoBlob, AuthenticatedBlob}

\* The stored blob reaches the store: the partialized fields are merged over
\* the current state; isLoading and error are not persisted.
Hydrate ==
  /\ ~hydrated
  /\ hydrated' = TRUE
  /\ IF persisted = NoBlob
     THEN UNCHANGED storeVars
     ELSE SetStore([persisted EXCEPT !.isLoading = isLoading, !.error = error])
  /\ UNCHANGED <<opVars, persisted, welcomeVars, hostVars, hookVars, routeResult, chainVars>>
  /\ RoutingEffect

----------------------------------------------------------------------------
(* Welcome screen (app/index) and the navigation host                      *)

\* AsyncStorage.setItem('hasSeenWelcome', 'true') completes or fails
WelcomeFlagWritten(ok) ==
  /\ welcomeWritePending
  /\ welcomeWritePending' = FALSE
  /\ welcomeStored' = (welcomeStored \/ ok)
  /\ UNCHANGED <<storeVars, opVars, persistVars, hostVars, hookVars, routeResult, chainVars>>
  /\ RoutingEffect

IsWelcomeScreen(loc) == loc = Loc(<<>>, WelcomePath)

\* The location changes (the user navigates, or the host carries out a
\* replace); the welcome screen starts its flag write when it mounts.
Navigate(loc) ==
  /\ loc # Loc(segments, pathname)
  /\ segments' = loc.segments
  /\ pathname' = loc.pathname
  /\ welcomeWritePending' = (welcomeWritePending \/ IsWelcomeScreen(loc))
  /\ UNCHANGED <<storeVars, opVars, persistVars, welcomeStored, hookVars, routeResult, chainVars>>
  /\ RoutingEffect

----------------------------------------------------------------------------
(* useProtectedRoute: mount, initializeApp, unmount                        *)

\* First render and mount: the mount effect starts initializeApp, whose
\* closure holds the authState of this render; the routing effect runs once.
Mount ==
  /\ mounted = "no"
  /\ mounted' = "yes"
  /\ hookPc' = "readWelcome"
  /\ mountAuthState' = [isAuthenticated |-> isAuthenticated, accessToken |-> accessToken]
  /\ hasSeenWelcome' = FALSE
  /\ isReady' = FALSE
  /\ UNCHANGED <<storeVars, opVars, persistVars, welcomeVars, hostVars,
                 validation, welcomeRead, routeResult, chainVars>>
  /\ RoutingEffect

\* a state setter of the hook has no effect once the hook is unmounted
HookSet(current, value) == IF mounted = "yes" THEN value ELSE current

\* if (authState.isAuthenticated && authState.accessToken)
MountSessionAuthenticated ==
  mountAuthState.isAuthenticated /\ Truthy(mountAuthState.accessToken)

\* (a failed read taken as "welcome seen")
InitWelcomeReadFailOpen(readOk) ==
  /\ hookPc = "readWelcome"
  /\ hasSeenWelcome' = HookSet(hasSeenWelcome, readOk => welcomeStored)
  /\ IF MountSessionAuthenticated
     THEN /\ hookPc' = "validate"
          /\ UNCHANGED isReady
     ELSE /\ hookPc' = "done"
          /\ isReady' = HookSet(isReady, TRUE)
  /\ welcomeRead' = IF readOk THEN "ok" ELSE "failed"
  /\ UNCHANGED <<storeVars, opVars, persistVars, welcomeVars, hostVars,
                 mounted, mountAuthState, validation, routeResult, chainVars>>
  /\ RoutingEffect

\* checkWelcomeStatus resolved: the stored flag, or false when the read failed.
\* Without a session to validate, initializeApp runs on to its finally block.
InitWelcomeRead(readOk) ==
  /\ hookPc = "readWelcome"
  /\ hasSeenWelcome' = HookSet(hasSeenWelcome, readOk /\ welcomeStored)
  /\ IF MountSessionAuthenticated
     THEN /\ hookPc' = "validate"
          /\ UNCHANGED isReady
     ELSE /\ hookPc' = "done"
          /\ isReady' = HookSet(isReady, TRUE)
  /\ welcomeRead' = IF readOk THEN "ok" ELSE "failed"
  /\ UNCHANGED <<storeVars, opVars, persistVars, welcomeVars, hostVars,
                 mounted, mountAuthState, validation, routeResult, chainVars>>
  /\ RoutingEffect

\* (a successful validation that leaves the hook not ready)
InitValidateOkNotReady ==
  /\ hookPc = "validate"
  /\ hookPc' = "done"
  /\ validation' = "ok"
  /\ UNCHANGED <<storeVars, opVars, persistVars, welcomeVars, hostVars,
                 mounted, mountAuthState, hasSeenWelcome, isReady, welcomeRead,
                 routeResult, chainVars>>
  /\ RoutingEffect

\* validateAccessToken resolved true: finally { setIsReady(true) }
InitValidateOk ==
  /\ hookPc = "validate"
  /\ hookPc' = "done"
  /\ validation' = "ok"
  /\ isReady' = HookSet(isReady, TRUE)
  /\ UNCHANGED <<storeVars, opVars, persistVars, welcomeVars, hostVars,
                 mounted, mountAuthState, hasSeenWelcome, welcomeRead,
                 routeResult, chainVars>>
  /\ RoutingEffect

\* (a failed validation that leaves the session in the store)
InitValidateFailedKeepingSession ==
  /\ hookPc = "validate"
  /\ hookPc' = "done"
  /\ validation' = "failed"
  /\ isReady' = HookSet(isReady, TRUE)
  /\ UNCHANGED <<storeVars, opVars, persistVars, welcomeVars, hostVars,
                 mounted, mountAuthState, hasSeenWelcome, welcomeRead,
                 routeResult, chainVars>>
  /\ RoutingEffect

\* validateAccessToken resolved false: useAuthStore.getState().reset(), then
\* finally { setIsReady(true) }
InitValidateFailed ==
  /\ hookPc = "validate"
  /\ hookPc' = "done"
  /\ validation' = "failed"
  /\ SetStore(initialState)
  /\ isReady' = HookSet(isReady, TRUE)
  /\ UNCHANGED <<opVars, persistVars, welcomeVars, hostVars,
                 mounted, mountAuthState, hasSeenWelcome, welcomeRead,
                 routeResult, chainVars>>
  /\ RoutingEffect

Unmount ==
  /\ mounted = "yes"
  /\ mounted' = "gone"
  /\ UNCHANGED <<storeVars, opVars, persistVars, welcomeVars, hostVars,
                 hookPc, mountAuthState, hasSeenWelcome, isReady, validation,
                 welcomeRead, routeResult, chainVars>>
  /\ RoutingEffect

----------------------------------------------------------------------------
(* The application                                                         *)

\* what every launch starts from, whatever the storage and the location
InitCommon ==
  /\ SetStoreInit
  /\ inFlight = [op \in Ops |-> 0]
  /\ thrown = Null
  /\ loginOvertookLogout = FALSE
  /\ hydrated = FALSE
  /\ mounted = "no"
  /\ hookPc = "idle"
  /\ mountAuthState = [isAuthenticated |-> FALSE, accessToken |-> Null]
  /\ hasSeenWelcome = FALSE
  /\ isReady = FALSE
  /\ hasNavigatedRef = FALSE
  /\ replaceLog = <<>>
  /\ stayed = FALSE
  /\ validation = "none"
  /\ welcomeRead = "none"
  /\ routeResult = "unset"

\* The app is launched: storage holds what earlier launches left, the host
\* shows some location, nothing has run yet.
Init ==
  /\ InitCommon
  /\ ChainIdle
  /\ persisted \in HookBlobs
  /\ welcomeStored \in BOOLEAN
  /\ \E loc \in HostLocations :
       /\ segments = loc.segments
       /\ pathname = loc.pathname
       /\ welcomeWritePending = IsWelcomeScreen(loc)

\* the session operations the screens call while the hook is mounted
SessionNext ==
  \/ LoginStart(MaxInFlightHook)
  \/ \E u \in ServerUsers : LoginSuccess(u)
  \/ LogoutStart(MaxInFlightHook)
  \/ LogoutFinish
  \/ \E email \in {Email, Null} : setPendingEmail(email)
  \/ reset

HookNext ==
  \/ Mount
  \/ \E readOk \in BOOLEAN : InitWelcomeRead(readOk)
  \/ InitValidateOk
  \/ InitValidateFailed
  \/ Unmount

HostNext ==
  \/ Hydrate
  \/ \E ok \in BOOLEAN : WelcomeFlagWritten(ok)
  \/ \E loc \in HostLocations : Navigate(loc)

Next == SessionNext \/ HookNext \/ HostNext

Spec == Init /\ [][Next]_vars

\* the promise initializeApp is awaiting settles
InitStep ==
  \/ \E readOk \in BOOLEAN : InitWelcomeRead(readOk)
  \/ InitValidateOk
  \/ InitValidateFailed

\* The AsyncStorage read of checkWelcomeStatus and the profile fetch of
\* validateAccessToken each resolve or reject, and the event loop then runs
\* the continuation of initializeApp.
SpecFair == Spec /\ WF_vars(InitStep)

----------------------------------------------------------------------------
(* The store on its own: every operation, the hook never mounted           *)

InitStore ==
  /\ InitCommon
  /\ ChainIdle
  /\ persisted \in PersistedBlobs
  /\ welcomeStored = FALSE
  /\ segments = <<>>
  /\ pathname = WelcomePath
  /\ welcomeWritePending = FALSE

StoreNext ==
  \/ LoginStart(MaxInFlight)
  \/ \E u \in ServerUsers : LoginSuccess(u)
  \/ LoginFailure
  \/ LogoutStart(MaxInFlight)
  \/ LogoutFinish
  \/ RegisterStart(MaxInFlight)
  \/ \E email \in {Email, ""} : RegisterSuccess(email, Email)
  \/ RegisterFailure
  \/ RefreshNoToken
  \/ RefreshStart(MaxInFlight)
  \/ RefreshSuccess
  \/ RefreshFailure
  \/ \E userData \in UserUpdates : updateUser(userData)
  \/ \E u \in ServerUsers : setUser(u)
  \/ setTokens(ServerToken, ServerRefresh)
  \/ \E email \in {Email, Null} : setPendingEmail(email)
  \/ \E status \in {"started", "completed"} : setOnboardingStatus(status)
  \/ \E b \in BOOLEAN : setHasPasscode(b)
  \/ reset
  \/ Hydrate

SpecStore == InitStore /\ [][StoreNext]_vars

\* The server call a logout awaits settles (response, network error or
\* timeout), and the event loop then runs the continuation of logout.
SpecStoreFair == SpecStore /\ WF_vars(LogoutFinish)

----------------------------------------------------------------------------
(* determineRoute evaluated directly on every input                        *)

InitRoute ==
  /\ user \in AllUsers
  /\ isAuthenticated \in BOOLEAN
  /\ accessToken \in {Null, ServerToken}
  /\ refreshToken = Null
  /\ onboardingStatus \in {Null, "started", "completed"}
  /\ pendingVerificationEmail \in {Null, Email}
  /\ hasPasscode = FALSE
  /\ isLoading = FALSE
  /\ error = Null
  /\ inFlight = [op \in Ops |-> 0]
  /\ thrown = Null
  /\ loginOvertookLogout = FALSE
  /\ persisted = NoBlob
  /\ hydrated = TRUE
  /\ welcomeStored = FALSE
  /\ welcomeWritePending = FALSE
  /\ segments \in SegmentLists
  /\ pathname \in Paths
  /\ mounted = "no"
  /\ hookPc = "idle"
  /\ mountAuthState = [isAuthenticated |-> FALSE, accessToken |-> Null]
  /\ hasSeenWelcome \in BOOLEAN
  /\ isReady = FALSE
  /\ hasNavigatedRef = FALSE
  /\ replaceLog = <<>>
  /\ stayed = FALSE
  /\ validation = "none"
  /\ welcomeRead = "none"
  /\ routeResult = "unset"
  /\ ChainIdle

\* const targetRoute = determineRoute(authState, config, hasSeenWelcome)
EvalRoute ==
  /\ routeResult = "unset"
  /\ routeResult' =
       determineRoute(AuthStateOf, buildRouteConfig(segments, pathname),
                      hasSeenWelcome)
  /\ UNCHANGED <<storeVars, opVars, persistVars, welcomeVars, hostVars,
                 hookVars, navVars, chainVars>>

SpecRoute == InitRoute /\ [][EvalRoute]_vars

----------------------------------------------------------------------------
(* utils/chains evaluated directly on every input                          *)

InitChain ==
  /\ InitCommon
  /\ persisted = NoBlob
  /\ welcomeStored = FALSE
  /\ welcomeWritePending = FALSE
  /\ segments = <<>>
  /\ pathname = WelcomePath
  /\ networkId \in NetworkIds
  /\ chainArg \in ChainArgs
  /\ chainResult = "unset"
  /\ testnetResult = "unset"

\* const chain = getTestnetChain(networkId)
EvalGetTestnetChain ==
  /\ chainResult = "unset"
  /\ chainResult' = getTestnetChain(networkId)
  /\ UNCHANGED <<storeVars, opVars, persistVars, welcomeVars, hostVars,
                 hookVars, navVars, routeResult, networkId, chainArg,
                 testnetResult>>

\* isTestnetChain(chain)
EvalIsTestnetChain ==
  /\ testnetResult = "unset"
  /\ testnetResult' = IF isTestnetChain(chainArg) THEN "true" ELSE "false"
  /\ UNCHANGED <<storeVars, opVars, persistVars, welcomeVars, hostVars,
                 hookVars, navVars, routeResult, networkId, chainArg,
                 chainResult>>

ChainNext == EvalGetTestnetChain \/ EvalIsTestnetChain

SpecChain == InitChain /\ [][ChainNext]_vars

----------------------------------------------------------------------------
(* Properties                                                              *)

\* the decision the routing effect would compute on the current state
CurrentTarget ==
  determineRoute(AuthStateOf, buildRouteConfig(segments, pathname), hasSeenWelcome)

\* the effect has computed a routing decision since mount
Decided == stayed \/ replaceLog # <<>>

CurrentConfig == buildRouteConfig(segments, pathname)

Evaluated == routeResult # "unset"

\* C1: within one mount at most one router.replace is issued, whatever
\* session, welcome-flag and location changes follow the first redirect.
C1_AtMostOneReplace == Len(replaceLog) <= 1

\* a redirect has fired and the state has since changed so that the decision
\* would be another target, which is not issued
C1_Witness ==
  /\ mounted = "yes"
  /\ isReady
  /\ Len(replaceLog) = 1
  /\ CurrentTarget # Null
  /\ CurrentTarget # replaceLog[1]

\* C2: no routing decision is computed and no replace is issued before
\* initializeApp has finished: the welcome-flag read has completed and, when
\* the session at mount was authenticated with a token, so has the validation.
C2_NoRoutingBeforeInitialized ==
  Decided =>
    /\ hookPc = "done"
    /\ isReady
    /\ MountSessionAuthenticated => validation # "none"

C2_Witness ==
  /\ replaceLog # <<>>
  /\ MountSessionAuthenticated
  /\ validation = "ok"

\* C3: when the session at mount is authenticated with a token and the
\* validation fails, the step that ends the validation leaves the store at
\* its default values, no decision was computed before it, and the first
\* decision, computed on that guest snapshot, is stay or the welcome root,
\* never the tabs root.
C3_FailedValidationResets ==
  [][ (hookPc = "validate" /\ validation' = "failed") =>
        /\ MountSessionAuthenticated
        /\ StoreState' = initialState
        /\ ~Decided
        /\ mounted = "yes" => /\ Decided'
                              /\ replaceLog' \in {<<>>, <<WelcomePath>>} ]_vars

C3_Witness ==
  /\ validation = "failed"
  /\ mounted = "yes"
  /\ replaceLog = <<WelcomePath>>
  /\ StoreState = initialState

\* C4: a session restored from storage with a token is validated before
\* routing uses it: while the hook routes on a session authenticated by the
\* persisted token, that token has passed validation.
C4_PersistedTokenValidated ==
  ( /\ mounted = "yes"
    /\ isReady
    /\ hydrated
    /\ persisted = AuthenticatedBlob
    /\ isAuthenticated
    /\ accessToken = PersistedToken )
  => validation = "ok"

\* C5: a fully authenticated session on one of the four critical screens
\* always gets stay.
C5_CriticalFlowStay ==
  ( /\ Evaluated
    /\ isAuthenticated /\ UserPresent(user) /\ Truthy(accessToken)
    /\ \/ CurrentConfig.isOnLoginPasscode
       \/ CurrentConfig.isOnVerifyEmail
       \/ CurrentConfig.isOnCreatePasscode
       \/ CurrentConfig.isOnConfirmPasscode )
  => routeResult = Null

C5_Witness ==
  /\ Evaluated
  /\ isAuthenticated /\ UserPresent(user) /\ Truthy(accessToken)
  /\ CurrentConfig.isOnVerifyEmail
  /\ ~CurrentConfig.inTabsGroup
  /\ user.onboardingStatus = "started"
  /\ routeResult = Null

\* C6: determineRoute returns nothing or one of the five targets, for every
\* session snapshot, location and welcome flag.
C6_RouteTotal == Evaluated => routeResult \in Targets \cup {Null}

C6_Witness ==
  /\ routeResult = SigninPath
  /\ user.hasPasscode = "undef"
  /\ onboardingStatus = Null

\* C7: once initialised and while no redirect has been issued, every change
\* of a session field, of the location or of the welcome flag is followed by
\* a decision on the new state: a target is issued as replace(target) and
\* sets the latch, stay issues nothing and leaves the latch open.
C7_ChangeRecomputes ==
  [][ ( /\ mounted' = "yes"
        /\ isReady'
        /\ ~hasNavigatedRef
        /\ <<user, isAuthenticated, accessToken, onboardingStatus,
             pendingVerificationEmail, segments, pathname, hasSeenWelcome,
             isReady>>' #
           <<user, isAuthenticated, accessToken, onboardingStatus,
             pendingVerificationEmail, segments, pathname, hasSeenWelcome,
             isReady>> )
      => IF CurrentTarget' # Null
         THEN /\ replaceLog' = Append(replaceLog, CurrentTarget')
              /\ hasNavigatedRef'
         ELSE /\ replaceLog' = replaceLog
              /\ ~hasNavigatedRef'
              /\ stayed' ]_vars

\* a stay was decided first and a later change was redirected
C7_Witness ==
  /\ mounted = "yes"
  /\ stayed
  /\ Len(replaceLog) = 1
  /\ hasNavigatedRef

\* C8: isAuthenticated implies user and accessToken present, in every state
\* of the store.
C8_AuthenticatedHasUserAndToken ==
  isAuthenticated => UserPresent(user) /\ Truthy(accessToken)

\* the route the stored-credentials, pending-verification or guest rules give
WeakerStateRoute ==
  IF UserPresent(user) THEN handleStoredCredentials(AuthStateOf, CurrentConfig)
  ELSE IF Truthy(pendingVerificationEmail) THEN handleEmailVerification(CurrentConfig)
  ELSE handleGuestUser(hasSeenWelcome, CurrentConfig)

\* C9: a snapshot with isAuthenticated true but user or accessToken absent is
\* routed by the weaker-state rules.
C9_MalformedDegrades ==
  ( /\ Evaluated
    /\ isAuthenticated
    /\ ~(UserPresent(user) /\ Truthy(accessToken)) )
  => routeResult = WeakerStateRoute

\* C10: for a guest the result is the welcome root when the flag is false
\* off the welcome screen, and when in the tabs group or outside both the
\* auth group and the welcome screen; it is stay when the flag is true inside
\* the auth group, and otherwise stay only on the welcome screen.
C10_GuestBranch ==
  ( /\ Evaluated
    /\ ~isAuthenticated /\ ~UserPresent(user)
    /\ ~Truthy(pendingVerificationEmail) )
  => /\ routeResult \in {Null, WelcomePath}
     /\ (~hasSeenWelcome /\ ~CurrentConfig.isOnWelcomeScreen)
          => routeResult = WelcomePath
     /\ ( \/ CurrentConfig.inTabsGroup
          \/ (~CurrentConfig.inAuthGroup /\ ~CurrentConfig.isOnWelcomeScreen) )
          => routeResult = WelcomePath
     /\ (hasSeenWelcome /\ CurrentConfig.inAuthGroup) => routeResult = Null
     /\ routeResult = Null
          => \/ hasSeenWelcome /\ CurrentConfig.inAuthGroup
             \/ CurrentConfig.isOnWelcomeScreen

\* a guest who has seen the welcome flow, in the tabs group at path "/"
C10_Witness ==
  /\ Evaluated
  /\ ~isAuthenticated /\ ~UserPresent(user)
  /\ ~Truthy(pendingVerificationEmail)
  /\ hasSeenWelcome
  /\ CurrentConfig.inTabsGroup
  /\ CurrentConfig.isOnWelcomeScreen
  /\ routeResult = WelcomePath

\* the snapshot is in the stored-credentials state
StoredCredentialsState == ~isAuthenticated /\ UserPresent(user)

\* C11: with stored credentials the result is stay inside the auth group;
\* outside it a user with a passcode who is off the login-passcode screen is
\* sent to login-passcode, a user without one (false or missing) who is off
\* the welcome screen is sent to signin, and everything else is stay; the
\* result is never the tabs root, the welcome root or verify-email.
C11_StoredCredentialsBranch ==
  (Evaluated /\ StoredCredentialsState)
  => /\ CurrentConfig.inAuthGroup => routeResult = Null
     /\ ~CurrentConfig.inAuthGroup =>
          routeResult =
            IF user.hasPasscode = "true" /\ ~CurrentConfig.isOnLoginPasscode
            THEN LoginPasscodePath
            ELSE IF user.hasPasscode \in {"false", "undef"}
                    /\ ~CurrentConfig.isOnWelcomeScreen
                 THEN SigninPath
                 ELSE Null
     /\ routeResult \notin {TabsPath, WelcomePath, VerifyEmailPath}

\* a user without a passcode field, outside the auth group, sent to signin
C11_Witness ==
  /\ Evaluated
  /\ StoredCredentialsState
  /\ user.hasPasscode = "undef"
  /\ ~CurrentConfig.inAuthGroup
  /\ CurrentConfig.inTabsGroup
  /\ Truthy(pendingVerificationEmail)
  /\ routeResult = SigninPath

\* the snapshot is in the fully authenticated state
AuthenticatedState == isAuthenticated /\ UserPresent(user) /\ Truthy(accessToken)

\* C12: a fully authenticated session outside the four critical screens gets
\* the tabs root exactly when the location is not in the tabs group and stay
\* exactly when it is, whatever the effective onboarding status.
C12_AuthenticatedBranch ==
  ( /\ Evaluated
    /\ AuthenticatedState
    /\ ~CurrentConfig.isOnLoginPasscode
    /\ ~CurrentConfig.isOnVerifyEmail
    /\ ~CurrentConfig.isOnCreatePasscode
    /\ ~CurrentConfig.isOnConfirmPasscode )
  => /\ routeResult = TabsPath <=> ~CurrentConfig.inTabsGroup
     /\ routeResult = Null <=> CurrentConfig.inTabsGroup

\* onboarding not completed (store-level status, none on the user), in the
\* tabs group: stay
C12_Witness ==
  /\ Evaluated
  /\ AuthenticatedState
  /\ user.onboardingStatus = "undef"
  /\ onboardingStatus = "started"
  /\ EffectiveOnboardingStatus(AuthStateOf) = "started"
  /\ CurrentConfig.inTabsGroup
  /\ pathname = TabsPath
  /\ routeResult = Null

\* the snapshot is in the pending-verification state
PendingVerificationState ==
  ~isAuthenticated /\ ~UserPresent(user) /\ Truthy(pendingVerificationEmail)

\* C13: with a pending verification email and no user the result is
\* verify-email exactly when the location is neither the verify-email screen
\* nor the welcome screen, and stay on those two screens; the result is fixed
\* by the location alone, for either value of the welcome flag.
C13_PendingVerificationBranch ==
  (Evaluated /\ PendingVerificationState)
  => /\ routeResult = VerifyEmailPath
          <=> (~CurrentConfig.isOnVerifyEmail /\ ~CurrentConfig.isOnWelcomeScreen)
     /\ (CurrentConfig.isOnVerifyEmail \/ CurrentConfig.isOnWelcomeScreen)
          => routeResult = Null
     /\ routeResult \in {Null, VerifyEmailPath}

\* welcome flow not seen, in the tabs group: verify-email, not the welcome root
C13_Witness ==
  /\ Evaluated
  /\ PendingVerificationState
  /\ ~hasSeenWelcome
  /\ CurrentConfig.inTabsGroup
  /\ pathname = TabsPath
  /\ routeResult = VerifyEmailPath

\* C14: while the location is the login-passcode, create-passcode,
\* confirm-passcode or verify-email screen the hook issues no replace,
\* whatever the session state and the welcome flag.
C14_CriticalFlowNeverInterrupted ==
  [][ isInCriticalAuthFlow(CurrentConfig') => replaceLog' = replaceLog ]_vars

\* C15: a step of initializeApp taken after the hook was unmounted writes
\* neither the hook state (hasSeenWelcome, isReady) nor the auth store.
C15_NoWriteAfterUnmount ==
  [][ (mounted = "gone" /\ hookPc' # hookPc)
      => UNCHANGED <<storeVars, hasSeenWelcome, isReady>> ]_vars

\* C16: once the read of the welcome flag has failed, hasSeenWelcome is
\* false, initializeApp has gone on to the validation step when the mount
\* session was authenticated, and when it has finished in a mounted hook
\* the hook is ready.
C16_WelcomeReadFailureAbsorbed ==
  welcomeRead = "failed"
  => /\ ~hasSeenWelcome
     /\ hookPc \in {"validate", "done"}
     /\ MountSessionAuthenticated
          => (hookPc = "validate" \/ validation \in {"ok", "failed"})
     /\ (hookPc = "done" /\ mounted = "yes") => isReady

\* the flag is stored, its read failed, the token was validated, the hook
\* is ready with hasSeenWelcome false
C16_Witness ==
  /\ welcomeRead = "failed"
  /\ welcomeStored
  /\ mounted = "yes"
  /\ validation = "ok"
  /\ hookPc = "done"
  /\ isReady
  /\ ~hasSeenWelcome

\* the store holds no session
LoggedOut ==
  /\ user = NullUser
  /\ ~isAuthenticated
  /\ accessToken = Null
  /\ refreshToken = Null

\* C17: the step that completes a logout, its server call resolved or
\* rejected, leaves user null, isAuthenticated false, both tokens null,
\* pendingVerificationEmail null, hasPasscode false and isLoading false.
C17_LogoutClearsSession ==
  [][ inFlight'["logout"] < inFlight["logout"]
      => /\ LoggedOut'
         /\ pendingVerificationEmail' = Null
         /\ ~hasPasscode'
         /\ ~isLoading' ]_vars

\* the stored session was merged, a login is still awaiting its response,
\* and the store is as a completed logout leaves it
C17_Witness ==
  /\ hydrated
  /\ persisted = AuthenticatedBlob
  /\ inFlight["login"] = 1
  /\ inFlight["logout"] = 0
  /\ LoggedOut
  /\ pendingVerificationEmail = Null
  /\ ~hasPasscode
  /\ ~isLoading
  /\ error = Null

\* C18: a refresh request that fails is rethrown and starts a logout, a
\* logout under way leads to the logged-out store, and a refresh attempted
\* without a refresh token throws and leaves every store field as it was.
C18_RefreshFailureLogsOut ==
  /\ [][ inFlight'["refresh"] < inFlight["refresh"]
         => \/ /\ thrown' = ErrorMessage
               /\ error' = ErrorMessage
               /\ inFlight'["logout"] = inFlight["logout"] + 1
            \/ /\ thrown' = Null
               /\ accessToken' = ServerToken
               /\ refreshToken' = ServerRefresh
               /\ inFlight'["logout"] = inFlight["logout"] ]_vars
  /\ (inFlight["logout"] > 0) ~> LoggedOut
  /\ [][ (inFlight' = inFlight /\ thrown = Null /\ thrown' = ErrorMessage)
         => (~Truthy(refreshToken) /\ UNCHANGED storeVars) ]_vars

\* an authenticated session whose refresh has just failed: the error is
\* raised and recorded, the logout it started awaits the server
C18_Witness ==
  /\ isAuthenticated
  /\ UserPresent(user)
  /\ Truthy(refreshToken)
  /\ thrown = ErrorMessage
  /\ error = ErrorMessage
  /\ isLoading
  /\ inFlight = [op \in Ops |-> IF op = "logout" THEN 1 ELSE 0]

\* the screen flags of the current configuration that are set
ScreenFlagsSet ==
  { f \in {"isOnWelcomeScreen", "isOnLoginPasscode", "isOnVerifyEmail",
           "isOnCreatePasscode", "isOnConfirmPasscode"} : CurrentConfig[f] }

\* C19: for every segment list and path the configuration has its seven
\* flags, all booleans; a group flag is set exactly when the first segment
\* is that group (none for an empty list, never both); a screen flag is set
\* exactly when the path is that screen's path, character for character, so
\* at most one screen flag is set.
C19_RouteConfigExact ==
  /\ DOMAIN CurrentConfig =
       {"inAuthGroup", "inTabsGroup", "isOnWelcomeScreen", "isOnLoginPasscode",
        "isOnVerifyEmail", "isOnCreatePasscode", "isOnConfirmPasscode"}
  /\ \A f \in DOMAIN CurrentConfig : CurrentConfig[f] \in BOOLEAN
  /\ CurrentConfig.inAuthGroup <=> (segments # <<>> /\ segments[1] = "(auth)")
  /\ CurrentConfig.inTabsGroup <=> (segments # <<>> /\ segments[1] = "(tabs)")
  /\ ~(CurrentConfig.inAuthGroup /\ CurrentConfig.inTabsGroup)
  /\ CurrentConfig.isOnWelcomeScreen <=> pathname = "/"
  /\ CurrentConfig.isOnLoginPasscode <=> pathname = "/(auth)/login-passcode"
  /\ CurrentConfig.isOnVerifyEmail <=> pathname = "/(auth)/verify-email"
  /\ CurrentConfig.isOnCreatePasscode <=> pathname = "/(auth)/create-passcode"
  /\ CurrentConfig.isOnConfirmPasscode <=> pathname = "/(auth)/confirm-passcode"
  /\ Cardinality(ScreenFlagsSet) <= 1

\* the verify-email path with a trailing slash and no segments: no flag is
\* set, and a pending verification is sent to the verify-email screen
C19_Witness ==
  /\ Evaluated
  /\ segments = <<>>
  /\ pathname = "/(auth)/verify-email/"
  /\ ScreenFlagsSet = {}
  /\ ~CurrentConfig.inAuthGroup
  /\ ~CurrentConfig.inTabsGroup
  /\ PendingVerificationState
  /\ routeResult = VerifyEmailPath

\* C21: getTestnetChain returns undefined or a chain that isTestnetChain
\* accepts, for every network id.
C21_TestnetOnly ==
  chainResult # "unset"
  => (chainResult = Null \/ isTestnetChain(chainResult))

\* the entry branch of determineRoute the current snapshot takes
MatchedBranch ==
  IF isAuthenticated /\ UserPresent(user) /\ Truthy(accessToken)
  THEN "authenticated"
  ELSE IF ~isAuthenticated /\ UserPresent(user) THEN "storedCredentials"
  ELSE IF ~isAuthenticated /\ ~UserPresent(user)
          /\ Truthy(pendingVerificationEmail)
  THEN "emailVerification"
  ELSE IF ~isAuthenticated /\ ~UserPresent(user) THEN "guest"
  ELSE "fallthrough"

\* C22: every session snapshot takes one of the four entry branches; the
\* final return of determineRoute is never reached.
C22_BranchesExhaustive == Evaluated => MatchedBranch # "fallthrough"

\* C23: the first matching branch wins. An unauthenticated snapshot with a
\* user and a pending email gets the result of the stored-credentials rules
\* and never verify-email; an unauthenticated snapshot without a user and
\* with a pending email gets the result of the verification rules, whatever
\* the guest rules would give.
C23_BranchPriority ==
  /\ (Evaluated /\ StoredCredentialsState /\ Truthy(pendingVerificationEmail))
       => /\ routeResult = handleStoredCredentials(AuthStateOf, CurrentConfig)
          /\ routeResult # VerifyEmailPath
  /\ (Evaluated /\ PendingVerificationState)
       => /\ routeResult = handleEmailVerification(CurrentConfig)
          /\ routeResult # WelcomePath

\* a stale user with a passcode and a pending email, in the tabs group: sent
\* to login-passcode where the verification rules would give verify-email
C23_Witness ==
  /\ Evaluated
  /\ StoredCredentialsState
  /\ Truthy(pendingVerificationEmail)
  /\ user.hasPasscode = "true"
  /\ CurrentConfig.inTabsGroup
  /\ handleEmailVerification(CurrentConfig) = VerifyEmailPath
  /\ routeResult = LoginPasscodePath

\* C24: every routing decision that issues a replace uses a hasSeenWelcome
\* equal to the persisted welcome flag at that moment (the flag having been
\* read without error).
C24_DecisionUsesPersistedFlag ==
  [][ (replaceLog' # replaceLog /\ welcomeRead' = "ok")
      => hasSeenWelcome' = welcomeStored' ]_vars

\* C25: a mounted hook becomes ready unless it is unmounted first; the flag
\* read and the validation each resolve at most once per mount, and the
\* validation only after the flag read.
C25_InitializationFinishes ==
  /\ (mounted = "yes") ~> (isReady \/ mounted = "gone")
  /\ [][ /\ welcomeRead # "none" => welcomeRead' = welcomeRead
         /\ validation # "none" => validation' = validation
         /\ validation' # "none" => welcomeRead' # "none"
         /\ hookPc = "done" => hookPc' = "done" ]_vars

\* the flag read failed, the validation failed, and the hook is ready
C25_Witness ==
  /\ mounted = "yes"
  /\ welcomeRead = "failed"
  /\ validation = "failed"
  /\ hookPc = "done"
  /\ isReady

\* C26: in every state of the store a pending verification email is set
\* only while isAuthenticated is false.
C26_PendingEmailImpliesUnauthenticated ==
  Truthy(pendingVerificationEmail) => ~isAuthenticated

\* the location the host shows after replace(target): the tabs root in the
\* tabs group, the auth screens in the auth group, the welcome root with no
\* segments
TargetLocation(target) ==
  IF target = TabsPath THEN Loc(<<"(tabs)">>, TabsPath)
  ELSE IF target = WelcomePath THEN Loc(<<>>, WelcomePath)
  ELSE Loc(<<"(auth)", "screen">>, target)

\* determineRoute on the current session and welcome flag at a target
RouteAt(target) ==
  determineRoute(AuthStateOf,
                 buildRouteConfig(TargetLocation(target).segments,
                                  TargetLocation(target).pathname),
                 hasSeenWelcome)

\* C27: when determineRoute returns a target, determineRoute on the same
\* session and welcome flag at the location of that target returns stay.
C27_RedirectConverges ==
  (Evaluated /\ routeResult # Null) => RouteAt(routeResult) = Null

\* a guest who has not seen the welcome flow, inside the auth group, is sent
\* to the welcome root and stays there
C27_Witness ==
  /\ Evaluated
  /\ MatchedBranch = "guest"
  /\ ~hasSeenWelcome
  /\ CurrentConfig.inAuthGroup
  /\ routeResult = WelcomePath
  /\ RouteAt(WelcomePath) = Null

\* C28: a snapshot with isAuthenticated false, evaluated on a configuration
\* in the tabs group, always gets a redirect target.
C28_UnauthenticatedLeavesTabs ==
  (Evaluated /\ ~isAuthenticated /\ CurrentConfig.inTabsGroup)
  => routeResult # Null

\* C29: when a guest whose welcome flag is recorded (and was read without
\* error) goes from the welcome screen into the auth group, the hook issues
\* no replace to the welcome root.
C29_GuestLeavesWelcome ==
  [][ ( /\ mounted' = "yes"
        /\ welcomeRead = "ok"
        /\ welcomeStored
        /\ MatchedBranch' = "guest"
        /\ IsWelcomeScreen(Loc(segments, pathname))
        /\ CurrentConfig'.inAuthGroup )
      => \/ replaceLog' = replaceLog
         \/ replaceLog'[Len(replaceLog')] # WelcomePath ]_vars

\* C30: a logout that was awaiting its server call when the latest login
\* succeeded leaves that login's user, authenticated flag and tokens in the
\* store when it completes.
C30_LoginSurvivesEarlierLogout ==
  [][ (loginOvertookLogout /\ inFlight'["logout"] < inFlight["logout"])
      => UNCHANGED <<user, isAuthenticated, accessToken, refreshToken>> ]_vars

====
